---- MODULE Spec2Model ----
(***************************************************************************)
(* The in-memory table of src/bigcode.ts (InMemoryTable), the helpers it  *)
(* rests on (makeId, deepClone), the repositories and services over it     *)
(* (registerUser, addAddress, react) and retry, as a state machine.        *)
(*                                                                         *)
(* JavaScript objects live in a heap of cells, so that two references to   *)
(* one object (the caller's record and the stored row, a stored row and a  *)
(* returned value) are two uses of one address.  A value is a tagged       *)
(* record [k, s, n]: k is the JavaScript type, s the string payload, n     *)
(* the numeric payload (a number, a Date's timestamp, an object's address).*)
(***************************************************************************)
EXTENDS Integers, Sequences, FiniteSets, TLC

VARIABLES
  rows,    \* InMemoryTable.rows: the Map, as the sequence of its entries in insertion order
  heap,    \* the live objects, each at its address
  arg,     \* the caller's reference to the record or patch it passed last (0: none)
  ret,     \* the caller's references to what the last call returned
  clock,   \* Date.now()
  last,    \* what the last step was and what it returned
  users,   \* UserRepository.table.rows: the Map's entries in insertion order
  posts,   \* PostRepository.table.rows: the Map's entries in insertion order
  calls,   \* the calls made to the services and repositories, each with where it stands
  retrying \* the one run of retry: its parameters, its locals, where it stands, what happened

vars == <<rows, heap, arg, ret, clock, last, users, posts, calls, retrying>>

(***************************************************************************)
(* Bounds                                                                  *)
(***************************************************************************)
MaxRows == 2
MaxClock == 1
MaxQueryRows == 3      \* the records of a table that is sorted and sliced
MaxCalls == 3          \* the calls made to a service
MaxAttempts == 2       \* the greatest attempts argument given to retry

(***************************************************************************)
(* Values                                                                  *)
(***************************************************************************)
Fields == {"id", "role", "createdAt", "metadata", "tag", "age"}
FieldSeq == <<"id", "role", "createdAt", "metadata", "tag", "age">>

Absent == [k |-> "absent", s |-> "", n |-> 0]          \* no own property of that name
Undef == [k |-> "undefined", s |-> "", n |-> 0]
Str(x) == [k |-> "string", s |-> x, n |-> 0]
Num(x) == [k |-> "number", s |-> "", n |-> x]
DateV(t) == [k |-> "date", s |-> "", n |-> t]
Ref(a) == [k |-> "object", s |-> "", n |-> a]

EmptyObj == [f \in Fields |-> Absent]

\* the `??` operator's test: null or undefined (a missing property reads as undefined)
IsNullish(v) == v.k \in {"absent", "undefined"}

\* reading a property: a missing one reads as undefined
Read(obj, f) == IF obj[f].k = "absent" THEN Undef ELSE obj[f]

\* { ...b, ...a }: the spread with its two operands in the wrong order
SpreadKeepsExisting(a, b) == [f \in Fields |-> IF a[f].k # "absent" THEN a[f] ELSE b[f]]

\* { ...a, ...b }: own properties of a, then those of b over them
Spread(a, b) == [f \in Fields |-> IF b[f].k # "absent" THEN b[f] ELSE a[f]]

(***************************************************************************)
(* The heap                                                                *)
(***************************************************************************)
\* the heap is the sequence of the live objects; an object's address is its place
Alloc(h) == Len(h) + 1
Put(h, a, obj) == IF a = Len(h) + 1 THEN Append(h, obj) ELSE [h EXCEPT ![a] = obj]

RECURSIVE SeqDedup(_)
SeqDedup(s) ==
  IF s = <<>> THEN <<>>
  ELSE LET front == SeqDedup(SubSeq(s, 1, Len(s) - 1))
           x == s[Len(s)]
       IN IF \E i \in 1..Len(front) : front[i] = x THEN front ELSE Append(front, x)

\* the objects reachable from a, a first, in field order
RECURSIVE Chain(_, _)
RECURSIVE ChainFrom(_, _, _)
ChainFrom(h, a, i) ==
  IF i > Len(FieldSeq) THEN <<>>
  ELSE (IF h[a][FieldSeq[i]].k = "object" THEN Chain(h, h[a][FieldSeq[i]].n) ELSE <<>>)
       \o ChainFrom(h, a, i + 1)
Chain(h, a) == <<a>> \o ChainFrom(h, a, 1)

RECURSIVE ChainAll(_, _)
ChainAll(h, roots) ==
  IF roots = <<>> THEN <<>> ELSE Chain(h, Head(roots)) \o ChainAll(h, Tail(roots))

IndexOf(s, x) == CHOOSE i \in 1..Len(s) : s[i] = x

\* Objects have no address a program can see: garbage is dropped and the live
\* objects are numbered in the order the roots reach them.
Normalize(st) ==
  LET roots == [i \in 1..Len(st.rows) |-> st.rows[i].ref]
               \o (IF st.arg = 0 THEN <<>> ELSE <<st.arg>>) \o st.ret
      order == SeqDedup(ChainAll(st.heap, roots))
      To(a) == IndexOf(order, a)
      Move(obj) == [f \in Fields |-> IF obj[f].k = "object" THEN Ref(To(obj[f].n)) ELSE obj[f]]
  IN [rows |-> [i \in 1..Len(st.rows) |-> [key |-> st.rows[i].key, ref |-> To(st.rows[i].ref)]],
      heap |-> [a \in 1..Len(order) |-> Move(st.heap[order[a]])],
      arg |-> IF st.arg = 0 THEN 0 ELSE To(st.arg),
      ret |-> [i \in 1..Len(st.ret) |-> To(st.ret[i])]]

\* the value of an object, with the objects it refers to in place of their addresses
RECURSIVE Deep(_, _)
Deep(h, a) ==
  [f \in Fields |->
     IF h[a][f].k = "object"
     THEN [k |-> "object", s |-> "", n |-> 0, sub |-> Deep(h, h[a][f].n)]
     ELSE h[a][f]]

(***************************************************************************)
(* Utility functions                                                       *)
(***************************************************************************)
Digit == <<"0", "1", "2", "3", "4", "5", "6", "7", "8", "9", "a", "b", "c", "d", "e", "f",
           "g", "h", "i", "j", "k", "l", "m", "n", "o", "p", "q", "r", "s", "t", "u", "v",
           "w", "x", "y", "z">>

RECURSIVE Join(_)
Join(chars) == IF chars = <<>> THEN "" ELSE Head(chars) \o Join(Tail(chars))

\* the digits of a non-negative integer in a radix, most significant first
RECURSIVE Digits(_, _)
Digits(n, radix) ==
  IF n < radix THEN <<Digit[n + 1]>>
  ELSE Append(Digits(n \div radix, radix), Digit[(n % radix) + 1])

\* Number.prototype.toString(radix)
ToStringRadix(n, radix) == Join(Digits(n, radix))

\* rand(): r is Math.floor(Math.random() * 0x10000), so Math.floor((1 + random) * 0x10000)
\* is 0x10000 + r; its five hex digits, substring(1)
rand(r) == Join(Tail(Digits(65536 + r, 16)))

makeId(prefix, r1, r2, t) == prefix \o rand(r1) \o rand(r2) \o "-" \o ToStringRadix(t, 36)

\* Date.prototype.toISOString of a timestamp of a few milliseconds
ToISOString(t) == "1970-01-01T00:00:00.00" \o ToStringRadix(t, 10) \o "Z"

\* JSON.stringify then JSON.parse of one property value that is no object:
\* undefined is left out, a Date becomes its ISO string
JsonPrimitive(v) ==
  CASE v.k = "undefined" -> Absent
    [] v.k = "date" -> Str(ToISOString(v.n))
    [] OTHER -> v

\* { ...obj }: a copy of the object alone, over the same objects under it
shallowClone(h, a) == [heap |-> Put(h, Alloc(h), h[a]), addr |-> Alloc(h)]

\* deepClone(obj): a new object for obj and for every object under it
RECURSIVE deepClone(_, _)
RECURSIVE CloneFields(_, _, _, _)
CloneFields(h, src, dst, i) ==
  IF i > Len(FieldSeq) THEN h
  ELSE LET f == FieldSeq[i]
           v == h[src][f]
       IN IF v.k = "object"
          THEN LET c == deepClone(h, v.n)
               IN CloneFields([c.heap EXCEPT ![dst][f] = Ref(c.addr)], src, dst, i + 1)
          ELSE CloneFields([h EXCEPT ![dst][f] = JsonPrimitive(v)], src, dst, i + 1)
deepClone(h, a) ==
  LET dst == Alloc(h)
  IN [heap |-> CloneFields(Put(h, dst, EmptyObj), a, dst, 1), addr |-> dst]

(***************************************************************************)
(* InMemoryTable                                                           *)
(***************************************************************************)
MapHas(rws, key) == \E i \in 1..Len(rws) : rws[i].key = key
MapIndex(rws, key) == CHOOSE i \in 1..Len(rws) : rws[i].key = key
MapGet(rws, key) == rws[MapIndex(rws, key)].ref
\* Map.set: an existing key keeps its place, a new one goes last
MapSet(rws, key, ref) ==
  IF MapHas(rws, key) THEN [rws EXCEPT ![MapIndex(rws, key)].ref = ref]
  ELSE Append(rws, [key |-> key, ref |-> ref])
MapDelete(rws, key) ==
  IF MapHas(rws, key)
  THEN SubSeq(rws, 1, MapIndex(rws, key) - 1) \o SubSeq(rws, MapIndex(rws, key) + 1, Len(rws))
  ELSE rws

\* insert(row): row is the address of the caller's record; r1, r2 and t are what
\* Math.random (twice) and Date.now give makeId
insert(h, rws, row, r1, r2, t) ==
  LET rowId == Read(h[row], "id")
      id == IF IsNullish(rowId) THEN Str(makeId("", r1, r2, t)) ELSE rowId
      toInsert == Alloc(h)
      h1 == Put(h, toInsert, [h[row] EXCEPT !["id"] = id])
      c == deepClone(h1, toInsert)
  IN [heap |-> c.heap, rows |-> MapSet(rws, id, toInsert), ret |-> <<c.addr>>,
      key |-> id, threw |-> "none"]

\* get(id): the undefined result is the empty ret
get(h, rws, id) ==
  IF MapHas(rws, id)
  THEN LET c == deepClone(h, MapGet(rws, id))
       IN [heap |-> c.heap, rows |-> rws, ret |-> <<c.addr>>]
  ELSE [heap |-> h, rows |-> rws, ret |-> <<>>]

\* an update that stores the patch when the id is no key
updateUpserts(h, rws, id, patch) ==
  LET updated == Alloc(h)
      h1 == Put(h, updated, IF MapHas(rws, id) THEN Spread(h[MapGet(rws, id)], h[patch])
                            ELSE h[patch])
      c == deepClone(h1, updated)
  IN [heap |-> c.heap, rows |-> MapSet(rws, id, updated), ret |-> <<c.addr>>]

\* update(id, patch): patch is the address of the caller's patch
update(h, rws, id, patch) ==
  IF ~MapHas(rws, id) THEN [heap |-> h, rows |-> rws, ret |-> <<>>]
  ELSE LET updated == Alloc(h)
           h1 == Put(h, updated, Spread(h[MapGet(rws, id)], h[patch]))
           c == deepClone(h1, updated)
       IN [heap |-> c.heap, rows |-> MapSet(rws, id, updated), ret |-> <<c.addr>>]

\* a delete that reports a removal whether or not there was one
deleteReportsTrue(rws, id) == [rows |-> MapDelete(rws, id), result |-> TRUE]

\* delete(id): Map.delete's result is whether the key was there
delete(rws, id) == [rows |-> MapDelete(rws, id), result |-> MapHas(rws, id)]
\* deepClone of every row, in the Map's order: Array.from(rows.values()).map(deepClone)
RECURSIVE CloneAll(_, _, _)
CloneAll(h, rws, i) ==
  IF i > Len(rws) THEN [heap |-> h, arr |-> <<>>]
  ELSE LET c == deepClone(h, rws[i].ref)
           rest == CloneAll(c.heap, rws, i + 1)
       IN [heap |-> rest.heap, arr |-> <<c.addr>> \o rest.arr]

\* RegExp.prototype.test for the patterns and the strings of the model
RegExpTest(pattern, str) ==
  CASE pattern = "^adm" -> str \in {"admin"}
    [] pattern = "r$" -> str \in {"user"}
    [] OTHER -> FALSE

\* a filter function applied to a property value: whether it threw, and what it returned
\*   isAdmin:  (v) => v === "admin"
\*   isLong:   (v) => v.length > 4      (a TypeError when v is undefined)
\*   fails:    (v) => { throw new TypeError() }
Call(fn, actual) ==
  CASE fn = "isAdmin" -> [threw |-> FALSE, value |-> actual = Str("admin")]
    [] fn = "isLong" ->
         IF actual.k = "undefined" THEN [threw |-> TRUE, value |-> FALSE]
         ELSE [threw |-> FALSE, value |-> actual.k = "string" /\ Len(actual.s) > 4]
    [] fn = "fails" -> [threw |-> TRUE, value |-> FALSE]
    [] OTHER -> [threw |-> FALSE, value |-> FALSE]

\* ===: an object (a Date too) is equal only to itself, and the two sides never hold
\* the same object here: the row at hand is a fresh clone
StrictEquals(actual, expected) == actual.k \notin {"object", "date"} /\ actual = expected

Returns(v) == [threw |-> FALSE, value |-> v]

\* one key of the filter against one row, the filter function called outside any try
MatchesKeyUncaught(obj, k, expected) ==
  LET actual == Read(obj, k)
  IN IF expected.k = "regexp" /\ actual.k = "string"
     THEN Returns(RegExpTest(expected.s, actual.s))
     ELSE IF expected.k = "function" THEN Call(expected.s, actual)
          ELSE Returns(StrictEquals(actual, expected))

\* one key of the filter against one row: what the callback of every returns, and
\* whether it threw instead
MatchesKey(obj, k, expected) ==
  LET actual == Read(obj, k)
  IN IF expected.k = "regexp" /\ actual.k = "string"
     THEN Returns(RegExpTest(expected.s, actual.s))
     ELSE IF expected.k = "function"
          THEN LET r == Call(expected.s, actual) IN IF r.threw THEN Returns(FALSE) ELSE r
          ELSE Returns(StrictEquals(actual, expected))

\* Object.keys(f).every(...): filter is the sequence of the filter object's entries;
\* every stops at the first key that does not match, and at a callback that throws
RECURSIVE Matches(_, _)
Matches(obj, filter) ==
  IF filter = <<>> THEN Returns(TRUE)
  ELSE LET m == MatchesKey(obj, Head(filter).k, Head(filter).expected)
       IN IF m.threw \/ ~m.value THEN m ELSE Matches(obj, Tail(filter))

\* arr.filter(...): the rows that match, or that a callback threw
RECURSIVE Filter(_, _, _)
Filter(h, arr, filter) ==
  IF arr = <<>> THEN [threw |-> FALSE, arr |-> <<>>]
  ELSE LET m == Matches(h[Head(arr)], filter)
       IN IF m.threw THEN [threw |-> TRUE, arr |-> <<>>]
          ELSE LET rest == Filter(h, Tail(arr), filter)
               IN [threw |-> rest.threw,
                   arr |-> IF rest.threw THEN <<>>
                           ELSE (IF m.value THEN <<Head(arr)>> ELSE <<>>) \o rest.arr]

\* the strings of the model in the order of their UTF-16 code units
StringOrder ==
  <<"", ToISOString(0), ToISOString(1), ToISOString(2), "a", "admin", "b", "mutated", "user", "x">>
StringRank(x) == CHOOSE i \in 1..Len(StringOrder) : StringOrder[i] = x

\* the > of two property values: numbers by value, strings by code units; every
\* other pair of the model's values (undefined with anything) compares false
GreaterThan(a, b) ==
  CASE a.k = "number" /\ b.k = "number" -> a.n > b.n
    [] a.k = "string" /\ b.k = "string" -> StringRank(a.s) > StringRank(b.s)
    [] OTHER -> FALSE

\* a comparator without the test for equal values
CompareWithoutTie(h, a, b, sortBy, sortOrder) ==
  LET aVal == Read(h[a], sortBy)
      bVal == Read(h[b], sortBy)
      cmp == IF GreaterThan(aVal, bVal) THEN 1 ELSE -1
  IN IF sortOrder = "desc" THEN -cmp ELSE cmp

\* the comparator of query
Compare(h, a, b, sortBy, sortOrder) ==
  LET aVal == Read(h[a], sortBy)
      bVal == Read(h[b], sortBy)
      cmp == IF GreaterThan(aVal, bVal) THEN 1 ELSE -1
  IN IF StrictEquals(aVal, bVal) THEN 0
     ELSE IF sortOrder = "desc" THEN -cmp ELSE cmp

\* Array.prototype.sort is stable: x goes after the last element that is not greater
RECURSIVE SortInsert(_, _, _, _, _)
SortInsert(h, sorted, x, sortBy, sortOrder) ==
  IF sorted = <<>> THEN <<x>>
  ELSE IF Compare(h, sorted[Len(sorted)], x, sortBy, sortOrder) > 0
       THEN Append(SortInsert(h, SubSeq(sorted, 1, Len(sorted) - 1), x, sortBy, sortOrder),
                   sorted[Len(sorted)])
       ELSE Append(sorted, x)

RECURSIVE Sort(_, _, _, _)
Sort(h, arr, sortBy, sortOrder) ==
  IF arr = <<>> THEN <<>>
  ELSE SortInsert(h, Sort(h, SubSeq(arr, 1, Len(arr) - 1), sortBy, sortOrder),
                  arr[Len(arr)], sortBy, sortOrder)

\* Array.prototype.slice(start, end)
Slice(arr, start, end) ==
  LET rel(k) == IF k < 0 THEN (IF Len(arr) + k < 0 THEN 0 ELSE Len(arr) + k)
                ELSE (IF k > Len(arr) THEN Len(arr) ELSE k)
  IN SubSeq(arr, rel(start) + 1, rel(end))

\* a query that slices to slice(offset, limit)
queryEndsAtLimit(h, rws, opts) ==
  LET all == CloneAll(h, rws, 1)
      filtered == IF opts.hasFilter THEN Filter(all.heap, all.arr, opts.filter)
                  ELSE [threw |-> FALSE, arr |-> all.arr]
      kept == filtered.arr
      sorted == IF opts.sortBy # "" THEN Sort(all.heap, kept, opts.sortBy, opts.sortOrder)
                ELSE kept
      offset == IF IsNullish(opts.offset) THEN 0 ELSE opts.offset.n
      limit == IF IsNullish(opts.limit) THEN Len(sorted) ELSE opts.limit.n
  IN IF filtered.threw
     THEN [heap |-> all.heap, rows |-> rws, ret |-> <<>>, threw |-> "TypeError"]
     ELSE [heap |-> all.heap, rows |-> rws, ret |-> Slice(sorted, offset, limit),
           threw |-> "none"]

\* query(opts): opts.filter is <<>> when there is none, opts.sortBy "" when there is
\* none, opts.offset and opts.limit are Undef or a number; threw is what comes out of
\* query in place of a result (a filter function's error, were it not caught)
query(h, rws, opts) ==
  LET all == CloneAll(h, rws, 1)
      filtered == IF opts.hasFilter THEN Filter(all.heap, all.arr, opts.filter)
                  ELSE [threw |-> FALSE, arr |-> all.arr]
      kept == filtered.arr
      sorted == IF opts.sortBy # "" THEN Sort(all.heap, kept, opts.sortBy, opts.sortOrder)
                ELSE kept
      offset == IF IsNullish(opts.offset) THEN 0 ELSE opts.offset.n
      limit == IF IsNullish(opts.limit) THEN Len(sorted) ELSE opts.limit.n
  IN IF filtered.threw
     THEN [heap |-> all.heap, rows |-> rws, ret |-> <<>>, threw |-> "TypeError"]
     ELSE [heap |-> all.heap, rows |-> rws, ret |-> Slice(sorted, offset, offset + limit),
           threw |-> "none"]

(***************************************************************************)
(* The caller: the records and patches it builds, the ids it asks for      *)
(***************************************************************************)
\* the object literal of a shape [id, role, createdAt, meta] or [id, role, createdAt,
\* meta, age], its metadata object first
Build(h, shape) ==
  LET top == [EmptyObj EXCEPT !["id"] = shape.id, !["role"] = shape.role,
                              !["createdAt"] = shape.createdAt,
                              !["age"] = IF "age" \in DOMAIN shape THEN shape.age ELSE Absent]
  IN IF shape.meta
     THEN LET m == Alloc(h)
              h1 == Put(h, m, [EmptyObj EXCEPT !["tag"] = Str("x")])
              a == Alloc(h1)
          IN [heap |-> Put(h1, a, [top EXCEPT !["metadata"] = Ref(m)]), addr |-> a]
     ELSE LET a == Alloc(h) IN [heap |-> Put(h, a, top), addr |-> a]

\* before a call the caller lets go of what it held from the call before
Held == Normalize([rows |-> rows, heap |-> heap, arg |-> 0, ret |-> <<>>])

ExplicitIds == {Str(""), Str("a"), Str("b")}
KnownIds == ExplicitIds \cup {rows[i].key : i \in 1..Len(rows)}

NoOpts == [hasFilter |-> FALSE, filter |-> <<>>, sortBy |-> "", sortOrder |-> "",
           offset |-> Undef, limit |-> Undef]
NoLast == [op |-> "init", key |-> Absent, found |-> FALSE, gen |-> FALSE, threw |-> "none",
           opts |-> NoOpts]

\* retry has not been called
NotRetrying == [pc |-> "idle", attempts |-> 0, backoffMs |-> 0, i |-> 0, lastErr |-> Undef,
                settled |-> Undef, log |-> <<>>]

Step(st, l) ==
  \E n \in {Normalize(st)} :
     /\ rows' = n.rows
     /\ heap' = n.heap
     /\ arg' = n.arg
     /\ ret' = n.ret
     /\ last' = l
     /\ UNCHANGED <<users, posts, calls, retrying>>

Init ==
  /\ rows = <<>>
  /\ heap = <<>>
  /\ arg = 0
  /\ ret = <<>>
  /\ clock = 0
  /\ last = NoLast
  /\ users = <<>>
  /\ posts = <<>>
  /\ calls = <<>>
  /\ retrying = NotRetrying

\* table.insert(shape) on a table of fewer than max records: rands are the values
\* Math.random may give makeId
InsertUpTo(shapes, rands, max) ==
  \E held \in {Held}, shape \in shapes :
    \E r1 \in (IF IsNullish(shape.id) THEN rands ELSE {0}),
       r2 \in (IF IsNullish(shape.id) THEN rands ELSE {0}) :
      LET b == Build(held.heap, shape)
          r == insert(b.heap, held.rows, b.addr, r1, r2, clock)
      IN /\ Len(r.rows) <= max
         /\ Step([rows |-> r.rows, heap |-> r.heap, arg |-> b.addr, ret |-> r.ret],
                 [NoLast EXCEPT !.op = "insert", !.key = r.key, !.found = MapHas(rows, r.key),
                                !.gen = IsNullish(shape.id), !.threw = r.threw])
         /\ UNCHANGED clock

Insert(shapes, rands) == InsertUpTo(shapes, rands, MaxRows)

\* table.get(id)
Get ==
  \E held \in {Held}, id \in KnownIds :
    LET r == get(held.heap, held.rows, id)
    IN /\ Step([rows |-> r.rows, heap |-> r.heap, arg |-> 0, ret |-> r.ret],
               [NoLast EXCEPT !.op = "get", !.key = id, !.found = r.ret # <<>>])
       /\ UNCHANGED clock

\* table.update(id, patch)
Update(shapes) ==
  \E held \in {Held}, id \in KnownIds, shape \in shapes :
    LET b == Build(held.heap, shape)
        r == update(b.heap, held.rows, id, b.addr)
    IN /\ Step([rows |-> r.rows, heap |-> r.heap, arg |-> b.addr, ret |-> r.ret],
               [NoLast EXCEPT !.op = "update", !.key = id, !.found = r.ret # <<>>])
       /\ UNCHANGED clock

\* table.delete(id)
Delete ==
  \E held \in {Held}, id \in KnownIds :
    LET r == delete(held.rows, id)
    IN /\ Step([rows |-> r.rows, heap |-> held.heap, arg |-> 0, ret |-> <<>>],
               [NoLast EXCEPT !.op = "delete", !.key = id, !.found = r.result])
       /\ UNCHANGED clock

\* table.query(opts)
Query(optss) ==
  \E held \in {Held}, opts \in optss :
    LET r == query(held.heap, held.rows, opts)
    IN /\ Step([rows |-> r.rows, heap |-> r.heap, arg |-> 0, ret |-> r.ret],
               [NoLast EXCEPT !.op = "query", !.opts = opts, !.threw = r.threw])
       /\ UNCHANGED clock

\* table.clear()
Clear ==
  /\ Step([rows |-> <<>>, heap |-> heap, arg |-> 0, ret |-> <<>>], [NoLast EXCEPT !.op = "clear"])
  /\ UNCHANGED clock

\* the caller writes to the record or patch it passed, or to the metadata object under
\* it, and lets go of what it holds
MutateArg ==
  /\ arg # 0
  /\ \E nested \in BOOLEAN :
       /\ nested => heap[arg]["metadata"].k = "object"
       /\ LET target == IF nested THEN heap[arg]["metadata"].n ELSE arg
              f == IF nested THEN "tag" ELSE "role"
          IN Step([rows |-> rows, heap |-> [heap EXCEPT ![target][f] = Str("mutated")],
                   arg |-> 0, ret |-> <<>>],
                  [NoLast EXCEPT !.op = "mutateArg", !.found = nested])
  /\ UNCHANGED clock

\* the caller writes to an object a call returned, or to the metadata object under it
MutateRet ==
  /\ \E i \in 1..Len(ret), nested \in BOOLEAN :
       /\ nested => heap[ret[i]]["metadata"].k = "object"
       /\ LET target == IF nested THEN heap[ret[i]]["metadata"].n ELSE ret[i]
              f == IF nested THEN "tag" ELSE "role"
          IN Step([rows |-> rows, heap |-> [heap EXCEPT ![target][f] = Str("mutated")],
                   arg |-> 0, ret |-> <<>>],
                  [NoLast EXCEPT !.op = "mutateRet", !.found = nested])
  /\ UNCHANGED clock

\* a millisecond passes
Tick ==
  /\ clock < MaxClock
  /\ clock' = clock + 1
  /\ UNCHANGED <<rows, heap, arg, ret, last, users, posts, calls, retrying>>

(***************************************************************************)
(* Repositories and services                                               *)
(*                                                                         *)
(* A table of a repository holds its records by value: every read of a     *)
(* table is a deepClone and the services let go of what they read before   *)
(* they return, so no object is reached twice.  A record carries the       *)
(* properties the services read (id, email, addresses, reactions); the     *)
(* ones they only carry along (username, role, createdAt, updatedAt) are   *)
(* left out.  An async call stands at "delay" while its timer runs, at     *)
(* "timed" when the method has returned into the timed wrapper, at "done"  *)
(* when the wrapper has returned to the caller.                            *)
(***************************************************************************)
Ok(v) == [ok |-> TRUE, error |-> "", value |-> v]
Err(message) == [ok |-> FALSE, error |-> message, value |-> <<>>]
Pending == [ok |-> FALSE, error |-> "", value |-> <<>>]

\* UserRepository.create(user): table.insert of the user under a made id
create(tbl, user, r1, r2, t) ==
  LET toCreate == [id |-> makeId("user_", r1, r2, t), email |-> user.email,
                   addresses |-> user.addresses]
  IN [rows |-> MapSet(tbl, toCreate.id, toCreate), value |-> toCreate]

\* UserRepository.findByEmail(email): table.query({ filter: { email } })[0], <<>> for
\* undefined
findByEmail(tbl, email) ==
  LET found == SelectSeq(tbl, LAMBDA e : e.ref.email = email)
  IN IF found = <<>> THEN <<>> ELSE <<found[1].ref>>

\* UserService.registerUser(payload) from the end of its delay to its return
registerUser(tbl, payload, r1, r2, t) ==
  LET exists == findByEmail(tbl, payload.email)
  IN IF exists # <<>> THEN [rows |-> tbl, result |-> Err("Email already registered")]
     ELSE LET c == create(tbl, [email |-> payload.email, addresses |-> <<>>], r1, r2, t)
          IN [rows |-> c.rows, result |-> Ok(c.value)]

\* a caller calls userService.registerUser(payload): the method runs to its await
CallRegisterUser(emails, max) ==
  /\ Cardinality({i \in 1..Len(calls) : calls[i].op = "registerUser"}) < max
  /\ \E email \in emails :
       calls' = Append(calls, [op |-> "registerUser", pc |-> "delay",
                               payload |-> [email |-> email], result |-> Pending])
  /\ UNCHANGED <<rows, heap, arg, ret, clock, last, users, posts, retrying>>

\* the delay of a registerUser call is over: the method runs to its return
ResumeRegisterUser(rands) ==
  \E i \in 1..Len(calls), r1 \in rands, r2 \in rands :
    /\ calls[i].op = "registerUser"
    /\ calls[i].pc = "delay"
    /\ LET r == registerUser(users, calls[i].payload, r1, r2, clock)
       IN /\ users' = r.rows
          /\ calls' = [calls EXCEPT ![i].pc = "timed", ![i].result = r.result]
    /\ UNCHANGED <<rows, heap, arg, ret, clock, last, posts, retrying>>

\* the timed wrapper of a call gets the method's result, logs and returns it
TimedReturns ==
  \E i \in 1..Len(calls) :
    /\ calls[i].pc = "timed"
    /\ calls' = [calls EXCEPT ![i].pc = "done"]
    /\ UNCHANGED <<rows, heap, arg, ret, clock, last, users, posts, retrying>>

\* UserRepository.findById, PostRepository.findById: table.get(id), <<>> for undefined
findById(tbl, id) == IF MapHas(tbl, id) THEN <<MapGet(tbl, id)>> ELSE <<>>

\* { ...existing, ...patch } of two records held by value
merge(existing, patch) ==
  [f \in DOMAIN existing \cup DOMAIN patch |->
     IF f \in DOMAIN patch THEN patch[f] ELSE existing[f]]

\* table.update(id, patch) on a table that holds its records by value
tableUpdate(tbl, id, patch) ==
  IF ~MapHas(tbl, id) THEN tbl ELSE MapSet(tbl, id, merge(MapGet(tbl, id), patch))

\* an addAddress that stores the new address alone
addAddressKeepsNew(tbl, userId, addr, r1, r2, t) ==
  LET user == findById(tbl, userId)
  IN IF user = <<>> THEN [rows |-> tbl, result |-> Err("User not found")]
     ELSE LET address == [id |-> makeId("addr_", r1, r2, t), street |-> addr.street]
          IN [rows |-> tableUpdate(tbl, userId, [addresses |-> <<address>>]),
              result |-> Ok(address)]

\* UserService.addAddress(userId, addr) from the end of its delay to its return
addAddress(tbl, userId, addr, r1, r2, t) ==
  LET user == findById(tbl, userId)
  IN IF user = <<>> THEN [rows |-> tbl, result |-> Err("User not found")]
     ELSE LET address == [id |-> makeId("addr_", r1, r2, t), street |-> addr.street]
              pushed == Append(user[1].addresses, address)
          IN [rows |-> tableUpdate(tbl, userId, [addresses |-> pushed]),
              result |-> Ok(address)]

Reactions == {"like", "love"}

\* PostRepository.create(post): table.insert of the post, with no reactions, under a made id
createPost(tbl, r1, r2, t) ==
  LET toCreate == [id |-> makeId("post_", r1, r2, t), reactions |-> [r \in Reactions |-> Absent]]
  IN [rows |-> MapSet(tbl, toCreate.id, toCreate), value |-> toCreate]

\* PostRepository.react(id, reaction, delta = 1): the result is <<>> for undefined
react(tbl, id, reaction, delta) ==
  LET p == findById(tbl, id)
      by == IF delta.k = "undefined" THEN 1 ELSE delta.n
  IN IF p = <<>> THEN [rows |-> tbl, result |-> <<>>]
     ELSE LET count == IF IsNullish(p[1].reactions[reaction]) THEN 0
                       ELSE p[1].reactions[reaction].n
              reacted == [p[1] EXCEPT !.reactions[reaction] = Num(count + by)]
          IN [rows |-> tableUpdate(tbl, id, reacted), result |-> <<reacted>>]

Keys(tbl) == {tbl[i].key : i \in 1..Len(tbl)}

\* the calls made to addAddress and to react
Made == Cardinality({i \in 1..Len(calls) : calls[i].op \in {"addAddress", "react"}})

\* a caller calls userService.addAddress(userId, addr): the method runs to its await
CallAddAddress(streets, max) ==
  /\ Made < max
  /\ \E userId \in Keys(users) \cup {"user_none"}, street \in streets :
       calls' = Append(calls, [op |-> "addAddress", pc |-> "delay",
                               payload |-> [userId |-> userId, addr |-> [street |-> street]],
                               result |-> Pending])
  /\ UNCHANGED <<rows, heap, arg, ret, clock, last, users, posts, retrying>>

\* the delay of an addAddress call is over: the method runs to its return
ResumeAddAddress(rands) ==
  \E i \in 1..Len(calls), r1 \in rands, r2 \in rands :
    /\ calls[i].op = "addAddress"
    /\ calls[i].pc = "delay"
    /\ LET r == addAddress(users, calls[i].payload.userId, calls[i].payload.addr, r1, r2, clock)
       IN /\ users' = r.rows
          /\ calls' = [calls EXCEPT ![i].pc = "timed", ![i].result = r.result]
    /\ UNCHANGED <<rows, heap, arg, ret, clock, last, posts, retrying>>

\* a caller calls postRepo.create(post) on the empty repository
CreatePost(rands) ==
  /\ posts = <<>>
  /\ \E r1 \in rands, r2 \in rands : posts' = createPost(posts, r1, r2, clock).rows
  /\ UNCHANGED <<rows, heap, arg, ret, clock, last, users, calls, retrying>>

\* a caller calls postRepo.react(id, reaction, delta): it runs to its return
React(deltas, max) ==
  /\ Made < max
  /\ \E id \in Keys(posts) \cup {"post_none"}, reaction \in Reactions, delta \in deltas :
       LET r == react(posts, id, reaction, delta)
       IN /\ posts' = r.rows
          /\ calls' = Append(calls, [op |-> "react", pc |-> "done",
                                     payload |-> [id |-> id, reaction |-> reaction,
                                                  delta |-> delta],
                                     result |-> r.result])
  /\ UNCHANGED <<rows, heap, arg, ret, clock, last, users, retrying>>

(***************************************************************************)
(* retry                                                                   *)
(* The log of a run holds what happened, in order: fn was called ("call"), *)
(* its promise was fulfilled ("return") or rejected ("throw"), a backoff   *)
(* timer was set ("wait", with its milliseconds) and ran out ("waited").   *)
(***************************************************************************)
DefaultAttempts == 3
DefaultBackoffMs == 50

Event(e, x) == [e |-> e, x |-> x]

\* the for loop's test with an off-by-one: one turn too many
retryLoopInclusive(st) ==
  IF st.i <= st.attempts
  THEN [st EXCEPT !.pc = "fn", !.log = Append(@, Event("call", Num(st.i)))]
  ELSE [st EXCEPT !.pc = "rejected", !.settled = st.lastErr]

\* the for loop's test: another turn, which calls fn and awaits it, or the throw of
\* lastErr after the loop
retryLoop(st) ==
  IF st.i < st.attempts
  THEN [st EXCEPT !.pc = "fn", !.log = Append(@, Event("call", Num(st.i)))]
  ELSE [st EXCEPT !.pc = "rejected", !.settled = st.lastErr]

\* the catch block: lastErr = err, then await delay(backoffMs * (i + 1))
retryCatch(st, err) ==
  [st EXCEPT !.pc = "backoff", !.lastErr = err,
             !.log = @ \o <<Event("throw", err), Event("wait", Num(st.backoffMs * (st.i + 1)))>>]

\* retry(fn, attempts, backoffMs) is called: it runs to its first await
CallRetry(attemptss, backoffs) ==
  /\ retrying.pc = "idle"
  /\ \E attempts \in attemptss, backoffMs \in backoffs :
       retrying' = retryLoop([NotRetrying EXCEPT
                      !.attempts = IF attempts.k = "undefined" THEN DefaultAttempts ELSE attempts.n,
                      !.backoffMs = IF backoffMs.k = "undefined" THEN DefaultBackoffMs
                                    ELSE backoffMs.n])
  /\ UNCHANGED <<rows, heap, arg, ret, clock, last, users, posts, calls>>

\* the promise of fn is fulfilled: return await fn()
FnReturns(values) ==
  /\ retrying.pc = "fn"
  /\ \E v \in values :
       retrying' = [retrying EXCEPT !.pc = "fulfilled", !.settled = v,
                                    !.log = Append(@, Event("return", v))]
  /\ UNCHANGED <<rows, heap, arg, ret, clock, last, users, posts, calls>>

\* fn throws or its promise is rejected
FnThrows(errors) ==
  /\ retrying.pc = "fn"
  /\ \E err \in errors : retrying' = retryCatch(retrying, err)
  /\ UNCHANGED <<rows, heap, arg, ret, clock, last, users, posts, calls>>

\* the backoff timer runs out: i++ and the loop's test
BackoffOver ==
  /\ retrying.pc = "backoff"
  /\ retrying' = retryLoop([retrying EXCEPT !.i = @ + 1,
                                            !.log = Append(@, Event("waited", Undef))])
  /\ UNCHANGED <<rows, heap, arg, ret, clock, last, users, posts, calls>>

(***************************************************************************)
(* Specifications: the same table under the inputs each group of           *)
(* properties is about                                                     *)
(***************************************************************************)
NoRand == {0}
RandSamples == {0, 65535}

\* explicit ids: insert, get, update, delete, clear
CrudRows == [id : {Str(""), Str("a"), Str("b")}, role : {Absent, Str("admin")}, createdAt : {Absent},
             meta : {FALSE}]
CrudPatches == [id : {Absent, Str("b")}, role : {Absent, Undef, Str("user")},
                createdAt : {Absent}, meta : {FALSE}]
Next == Insert(CrudRows, NoRand) \/ Get \/ Update(CrudPatches) \/ Delete \/ Clear
Spec == Init /\ [][Next]_vars

\* generated ids
GenRows == [id : {Absent}, role : {Undef, Str("admin")}, createdAt : {Absent, DateV(0)},
            meta : {FALSE}]
NextGen == Insert(GenRows, RandSamples) \/ Get \/ Tick
SpecGen == Init /\ [][NextGen]_vars

\* records with an object under them, and a caller that writes to what it holds
AliasRows == [id : {Str("a"), Str("b")}, role : {Absent}, createdAt : {Absent}, meta : BOOLEAN]
AliasPatches == [id : {Absent}, role : {Absent, Str("user")}, createdAt : {Absent},
                 meta : BOOLEAN]
NextAlias ==
  \/ Insert(AliasRows, NoRand) \/ Get \/ Update(AliasPatches) \/ Query({NoOpts})
  \/ MutateArg \/ MutateRet
SpecAlias == Init /\ [][NextAlias]_vars

\* query with plain-value filters over records with roles and dates
QueryRows == [id : {Str("a"), Str("b"), Str("")}, role : {Absent, Str("admin"), Str("user")},
              createdAt : {Absent, DateV(0)}, meta : {FALSE}]
PlainFilters ==
  {<<>>,
   <<[k |-> "role", expected |-> Str("admin")]>>,
   <<[k |-> "createdAt", expected |-> Str(ToISOString(0))]>>,
   <<[k |-> "role", expected |-> Str("user")], [k |-> "createdAt", expected |-> Undef]>>}
PlainOpts == {[NoOpts EXCEPT !.hasFilter = TRUE, !.filter = f] : f \in PlainFilters}
NextQuery == Insert(QueryRows, NoRand) \/ Delete \/ Query(PlainOpts \cup {NoOpts})
SpecQuery == Init /\ [][NextQuery]_vars

\* query with sortBy over records that all have the sort field
SortRows ==
  [id : {Str("a")}, role : {Str("admin")}, createdAt : {Absent}, meta : {FALSE},
   age : {Num(30), Num(20)}]
  \cup [id : {Str("b")}, role : {Str("admin"), Str("user")}, createdAt : {Absent},
        meta : {FALSE}, age : {Num(20)}]
  \cup [id : {Str("c")}, role : {Str("admin")}, createdAt : {Absent}, meta : {FALSE},
        age : {Num(25), Num(20)}]
SortOpts ==
  {[NoOpts EXCEPT !.sortBy = by, !.sortOrder = order, !.hasFilter = f # <<>>, !.filter = f] :
     by \in {"age", "role"}, order \in {"", "asc", "desc"},
     f \in {<<>>, <<[k |-> "role", expected |-> Str("admin")]>>}}
NextSort == InsertUpTo(SortRows, NoRand, MaxQueryRows) \/ Query(SortOpts)
SpecSort == Init /\ [][NextSort]_vars

\* query with offset and limit over records with creation dates, as
\* PostService.listRecent asks for them: newest first
SliceRows ==
  [id : {Str("a"), Str("c")}, role : {Absent}, createdAt : {DateV(0), DateV(2)}, meta : {FALSE}]
  \cup [id : {Str("b")}, role : {Absent}, createdAt : {DateV(1)}, meta : {FALSE}]
SliceOpts ==
  {[NoOpts EXCEPT !.sortBy = srt[1], !.sortOrder = srt[2], !.offset = o, !.limit = l] :
     srt \in {<<"", "">>, <<"createdAt", "desc">>},
     o \in {Undef, Num(1), Num(4)}, l \in {Undef, Num(0), Num(2)}}
NextSlice == InsertUpTo(SliceRows, NoRand, MaxQueryRows) \/ Query(SliceOpts)
SpecSlice == Init /\ [][NextSlice]_vars

\* query with filter functions, one of which throws on a record without a role
Fn(name) == [k |-> "function", s |-> name, n |-> 0]
RegExp(pattern) == [k |-> "regexp", s |-> pattern, n |-> 0]
PredicateRows == [id : {Str("a"), Str("b"), Str("c")}, role : {Absent, Str("admin"), Str("user")},
                  createdAt : {Absent}, meta : {FALSE}]
PredicateFilters ==
  {<<[k |-> "role", expected |-> Fn("isLong")]>>,
   <<[k |-> "role", expected |-> Fn("isAdmin")]>>,
   <<[k |-> "role", expected |-> Fn("fails")]>>,
   <<[k |-> "role", expected |-> RegExp("r$")]>>,
   <<[k |-> "id", expected |-> Str("a")], [k |-> "role", expected |-> Fn("isLong")]>>,
   <<[k |-> "role", expected |-> Fn("isLong")], [k |-> "id", expected |-> RegExp("^adm")]>>}
PredicateOpts == {[NoOpts EXCEPT !.hasFilter = TRUE, !.filter = f] : f \in PredicateFilters}
NextPredicate == Insert(PredicateRows, NoRand) \/ Query(PredicateOpts)
SpecPredicate == Init /\ [][NextPredicate]_vars

\* registerUser calls in flight together
Emails == {"a@x", "b@x"}
NextRegister ==
  \/ CallRegisterUser(Emails, MaxCalls) \/ ResumeRegisterUser(RandSamples) \/ TimedReturns
  \/ Tick
SpecRegister == Init /\ [][NextRegister]_vars

\* addAddress calls for one user in flight together, and react calls for one post
Streets == {"1 Main St", "2 Side St"}
Deltas == {Undef, Num(2)}
NextAddress ==
  \/ CallRegisterUser({"a@x"}, 1) \/ ResumeRegisterUser(NoRand) \/ TimedReturns
  \/ CreatePost(NoRand)
  \/ CallAddAddress(Streets, MaxCalls) \/ ResumeAddAddress(NoRand)
  \/ React(Deltas, MaxCalls)
SpecAddress == Init /\ [][NextAddress]_vars

\* a run of retry over a function that returns or throws as it likes
AttemptsArgs == {Undef} \cup {Num(n) : n \in 0..MaxAttempts}
BackoffArgs == {Undef, Num(20)}
FnValues == {Str("ok"), Str("late ok")}
FnErrors == {Str("random fail"), Str("other fail")}
NextRetry ==
  CallRetry(AttemptsArgs, BackoffArgs) \/ FnReturns(FnValues) \/ FnThrows(FnErrors) \/ BackoffOver
SpecRetry == Init /\ [][NextRetry]_vars

(***************************************************************************)
(* What a caller can see of a store                                        *)
(***************************************************************************)
\* the store alone: what the caller holds plays no part in what a call returns
StoreOf(h, rws) == Normalize([rows |-> rws, heap |-> h, arg |-> 0, ret |-> <<>>])

\* the stored records themselves, by value, in the Map's order
Stored(h, rws) == [i \in 1..Len(rws) |-> [key |-> rws[i].key, value |-> Deep(h, rws[i].ref)]]

\* what get(id) returns: <<>> for undefined, else the one value
GetView(h, rws, id) ==
  LET st == StoreOf(h, rws)
      r == get(st.heap, st.rows, id)
  IN [i \in 1..Len(r.ret) |-> Deep(r.heap, r.ret[i])]

\* what query(opts) returns
QueryView(h, rws, opts) ==
  LET st == StoreOf(h, rws)
      r == query(st.heap, st.rows, opts)
  IN [i \in 1..Len(r.ret) |-> Deep(r.heap, r.ret[i])]

\* what get returns for every id a caller may ask for, and what query returns
Views(h, rws) ==
  [gets |-> [i \in 1..Len(rws) |-> GetView(h, rws, rws[i].key)],
   absent |-> {id \in ExplicitIds : GetView(h, rws, id) = <<>>},
   queried |-> QueryView(h, rws, NoOpts)]

\* the Map without one key
Others(h, rws, id) == Stored(h, MapDelete(rws, id))

(***************************************************************************)
(* C1..C10                                                                 *)
(***************************************************************************)

\* C1: every stored record has a non-empty string id equal to the key it is stored
\* under (so no two stored records share an id).  The code breaks it: insert takes an
\* explicit "" as the id, and update spreads a patch's id over the stored one.
C1_IdIsNonEmptyKey ==
  \A i \in 1..Len(rows) :
    LET id == heap[rows[i].ref]["id"]
    IN id.k = "string" /\ id.s # "" /\ id = rows[i].key

\* C2: insert of an explicit id that is already a key throws DuplicateKeyError and
\* get(id) returns afterwards what it returned before.  The code overwrites.
C2_DuplicateInsertRejected ==
  [][(last'.op = "insert" /\ ~last'.gen /\ last'.found)
       => (/\ last'.threw = "DuplicateKeyError"
           /\ GetView(heap', rows', last'.key) = GetView(heap, rows, last'.key))]_vars

Range(seq) == {seq[i] : i \in 1..Len(seq)}
RowRefs == [i \in 1..Len(rows) |-> rows[i].ref]

\* nothing a call returned is, or leads to, an object of the store
NoReturnAliasing == Range(ChainAll(heap, ret)) \cap Range(ChainAll(heap, RowRefs)) = {}

\* C3: a write to a returned object, or to an object under it, changes nothing that
\* get or query returns afterwards, and no returned object is an object of the store.
C3_ReturnedCopiesIsolated ==
  [][/\ NoReturnAliasing'
     /\ (last'.op = "mutateRet" => Views(heap', rows') = Views(heap, rows))]_vars

\* C3 witness: the caller wrote to the metadata object of a returned record while the
\* store held a record with a metadata object
C3_Witness ==
  /\ last.op = "mutateRet"
  /\ last.found
  /\ \E i \in 1..Len(rows) : heap[rows[i].ref]["metadata"].k = "object"

\* C4: a write to the record passed to insert or the patch passed to update, or to an
\* object under it, changes nothing that get returns afterwards.  The code stores a
\* shallow copy ({ ...row, id }, { ...existing, ...patch }): the objects under the
\* record stay shared with the caller.
C4_ArgumentCopiedDeeply ==
  [][last'.op = "mutateArg" => Views(heap', rows') = Views(heap, rows)]_vars

\* C5: an insert without an id adds one record under a key that was not there, and
\* every record that was there is still there, unchanged.  The code draws the id from
\* Math.random and Date.now: two draws may agree, and the second insert overwrites.
C5_GeneratedIdIsFresh ==
  [][(last'.op = "insert" /\ last'.gen)
       => (/\ ~MapHas(rows, last'.key)
           /\ Len(rows') = Len(rows) + 1
           /\ \A i \in 1..Len(rows) :
                Stored(heap', rows')[i] = Stored(heap, rows)[i])]_vars

\* C6: update of an id that is no key returns undefined, throws nothing and leaves the
\* store as it was: as many records, each with the value it had.
C6_UpdateMissingIsNoOp ==
  [][(last'.op = "update" /\ ~MapHas(rows, last'.key))
       => (/\ ret' = <<>>
           /\ ~last'.found
           /\ last'.threw = "none"
           /\ Len(rows') = Len(rows)
           /\ Stored(heap', rows') = Stored(heap, rows))]_vars

\* C6 witness: an update of a missing id on a store that holds a record
C6_Witness == last.op = "update" /\ ~last.found /\ ~MapHas(rows, last.key) /\ Len(rows) > 0

\* C7: delete(id) returns whether id was a key; afterwards id is no key, the store is
\* smaller by one exactly when it returned true, and every other record is as it was;
\* a delete of the same id right after a delete returns false and changes nothing.
C7_DeleteIdempotent ==
  [][last'.op = "delete"
       => (/\ last'.found = MapHas(rows, last'.key)
           /\ last'.threw = "none"
           /\ ~MapHas(rows', last'.key)
           /\ Len(rows') = Len(rows) - (IF last'.found THEN 1 ELSE 0)
           /\ Stored(heap', rows') = Others(heap, rows, last'.key)
           /\ (last.op = "delete" /\ last.key = last'.key
                 => ~last'.found /\ Stored(heap', rows') = Stored(heap, rows)))]_vars

\* C7 witness: a delete that removed a record and left another in the store
C7_Witness == last.op = "delete" /\ last.found /\ Len(rows) = 1

\* C8: update of an existing id stores the old record with the patch's properties
\* over it and nothing else changed, returns what get(id) returns afterwards, and
\* leaves every other record as it was.
C8_UpdateMerges ==
  [][(last'.op = "update" /\ MapHas(rows, last'.key))
       => LET old == Deep(heap, MapGet(rows, last'.key))
              patch == Deep(heap', arg')
              new == Deep(heap', MapGet(rows', last'.key))
          IN /\ MapHas(rows', last'.key)
             /\ \A f \in Fields : new[f] = IF patch[f].k # "absent" THEN patch[f] ELSE old[f]
             /\ [i \in 1..Len(ret') |-> Deep(heap', ret'[i])] = GetView(heap', rows', last'.key)
             /\ Len(ret') = 1
             /\ [i \in 1..Len(rows') |-> rows'[i].key] = [i \in 1..Len(rows) |-> rows[i].key]
             /\ Others(heap', rows', last'.key) = Others(heap, rows, last'.key)]_vars

\* C8 witness: an update that gave a role to one of two records and left its id alone
C8_Witness ==
  /\ last.op = "update"
  /\ last.found
  /\ Len(rows) = 2
  /\ heap[arg]["role"].k = "string"
  /\ heap[arg]["id"].k = "absent"
  /\ heap[MapGet(rows, last.key)]["id"] = last.key

\* undefined-valued properties count as missing ones when two records are compared
DropUndefined(v) == [f \in Fields |-> IF v[f].k = "undefined" THEN Absent ELSE v[f]]

\* C9: after insert(r) of a record without an id, get of the returned id returns r
\* with the id added: every property of r with its value, and nothing else.  The code
\* returns a JSON round trip of the record: a Date comes back as a string.
C9_GetAfterInsertIsRecordPlusId ==
  [][(last'.op = "insert" /\ last'.gen)
       => LET id == heap'[ret'[1]]["id"]
              got == GetView(heap', rows', id)
          IN /\ Len(got) = 1
             /\ DropUndefined(got[1]) = DropUndefined([Deep(heap', arg') EXCEPT !["id"] = id])]_vars

\* the clones of the stored records whose every filtered property is === the expected
\* value, in the Map's order
RECURSIVE MatchingStored(_, _, _, _)
MatchingStored(h, rws, filter, i) ==
  IF i > Len(rws) THEN <<>>
  ELSE (IF \A j \in 1..Len(filter) :
              StrictEquals(Read(h[rws[i].ref], filter[j].k), filter[j].expected)
        THEN GetView(h, rws, rws[i].key) ELSE <<>>)
       \o MatchingStored(h, rws, filter, i + 1)

IsPlainFilter(opts) ==
  /\ opts.hasFilter
  /\ \A j \in 1..Len(opts.filter) : opts.filter[j].expected.k \notin {"function", "regexp"}

\* C10: a query with a filter of plain values and no sortBy returns the stored records
\* whose every filtered property equals the expected value, in the Map's order, and
\* leaves the store as it was.  The code filters the JSON round trips of the records:
\* a stored Date matches the string it serialises to.
C10_PlainFilterSelectsStored ==
  [][(last'.op = "query" /\ IsPlainFilter(last'.opts) /\ last'.opts.sortBy = "")
       => (/\ [i \in 1..Len(ret') |-> Deep(heap', ret'[i])]
                = MatchingStored(heap, rows, last'.opts.filter, 1)
           /\ Stored(heap', rows') = Stored(heap, rows))]_vars

(***************************************************************************)
(* C11..C16                                                                *)
(***************************************************************************)
\* what the last call returned, by value
Returned(h, r) == [i \in 1..Len(r) |-> Deep(h, r[i])]

\* the natural order of two values of one type: numbers by value, strings by code units
Less(a, b) ==
  CASE a.k = "number" /\ b.k = "number" -> a.n < b.n
    [] a.k = "string" /\ b.k = "string" -> StringRank(a.s) < StringRank(b.s)
    [] OTHER -> FALSE

\* every record has the field, and the values are all numbers or all strings
Sortable(recs, f) ==
  \/ \A i \in 1..Len(recs) : recs[i][f].k = "number"
  \/ \A i \in 1..Len(recs) : recs[i][f].k = "string"

\* got is recs in the order perm, and that order is the stable sort by field f:
\* of two records the one with the value that sorts first comes first, and of two with
\* equal values the one that came first in recs
StablySortedBy(got, recs, perm, f, desc) ==
  /\ \A i \in 1..Len(recs) : got[i] = recs[perm[i]]
  /\ \A i, j \in 1..Len(recs) :
       i < j => LET x == recs[perm[i]][f]
                    y == recs[perm[j]][f]
                IN \/ (IF desc THEN Less(y, x) ELSE Less(x, y))
                   \/ (x = y /\ perm[i] < perm[j])

Min(a, b) == IF a < b THEN a ELSE b
Max(a, b) == IF a > b THEN a ELSE b

\* the timestamps of the stored records are Dates, no two the same
DistinctDates(h, rws) ==
  /\ \A i \in 1..Len(rws) : h[rws[i].ref]["createdAt"].k = "date"
  /\ \A i, j \in 1..Len(rws) :
       i # j => h[rws[i].ref]["createdAt"].n # h[rws[j].ref]["createdAt"].n

\* how many stored records are newer than the stored record with this id
NewerThan(h, rws, id) ==
  Cardinality({i \in 1..Len(rws) :
                 h[rws[i].ref]["createdAt"].n > h[MapGet(rws, id)]["createdAt"].n})

\* C12: a query with offset >= 0 and limit >= 0 (offset 0 and limit all when left out)
\* returns of the filtered and sorted sequence the elements at the positions offset ..
\* min(offset + limit, length) - 1, so min(limit, max(0, length - offset)) records; and
\* sorted by createdAt descending with a limit over records with distinct timestamps it
\* returns the most recent ones, newest first.
C12_SliceIsClamped ==
  [][last'.op = "query"
       => LET opts == last'.opts
              full == QueryView(heap, rows, [opts EXCEPT !.offset = Undef, !.limit = Undef])
              got == Returned(heap', ret')
              offset == IF IsNullish(opts.offset) THEN 0 ELSE opts.offset.n
              end == IF IsNullish(opts.limit) THEN Len(full)
                     ELSE Min(offset + opts.limit.n, Len(full))
              limit == IF IsNullish(opts.limit) THEN Max(0, Len(full) - offset)
                       ELSE opts.limit.n
          IN /\ Len(got) = Min(limit, Max(0, Len(full) - offset))
             /\ \A i \in 1..Len(got) : offset + i <= end /\ got[i] = full[offset + i]
             /\ (/\ opts.sortBy = "createdAt"
                 /\ opts.sortOrder = "desc"
                 /\ ~opts.hasFilter
                 /\ IsNullish(opts.offset)
                 /\ DistinctDates(heap, rows))
                  => \A i \in 1..Len(got) : NewerThan(heap, rows, got[i]["id"]) = i - 1]_vars

\* C12 witness: the two most recent of three records with distinct timestamps, the
\* newest of them the last in the Map
C12_Witness ==
  /\ last.op = "query"
  /\ last.opts.sortBy = "createdAt"
  /\ last.opts.sortOrder = "desc"
  /\ IsNullish(last.opts.offset)
  /\ last.opts.limit = Num(2)
  /\ Len(rows) = 3
  /\ DistinctDates(heap, rows)
  /\ Len(ret) = 2
  /\ heap[ret[1]]["id"] = rows[3].key

\* whether one key of a filter holds of a record: a filter function that throws counts
\* as one that returns false
KeyHolds(obj, k, expected) ==
  LET actual == Read(obj, k)
  IN CASE expected.k = "function" ->
            LET r == Call(expected.s, actual) IN ~r.threw /\ r.value
       [] expected.k = "regexp" -> actual.k = "string" /\ RegExpTest(expected.s, actual.s)
       [] OTHER -> StrictEquals(actual, expected)

\* what get returns for the stored records of which every key of the filter holds, in
\* the Map's order
RECURSIVE Holding(_, _, _, _)
Holding(h, rws, filter, i) ==
  IF i > Len(rws) THEN <<>>
  ELSE (IF \A j \in 1..Len(filter) :
              KeyHolds(h[rws[i].ref], filter[j].k, filter[j].expected)
        THEN GetView(h, rws, rws[i].key) ELSE <<>>)
       \o Holding(h, rws, filter, i + 1)

HasFunction(opts) ==
  opts.hasFilter /\ \E j \in 1..Len(opts.filter) : opts.filter[j].expected.k = "function"

\* a filter function of the filter throws on the record
ThrowsOn(obj, filter) ==
  \E j \in 1..Len(filter) :
    filter[j].expected.k = "function" /\ Call(filter[j].expected.s, Read(obj, filter[j].k)).threw

\* C13: a query whose filter has a function returns normally whatever the function
\* does; it returns the stored records of which every key of the filter holds, a
\* function that throws on a record counting as not holding of it; and it leaves the
\* store as it was.
C13_ThrowingPredicateIsNoMatch ==
  [][(last'.op = "query" /\ HasFunction(last'.opts))
       => (/\ last'.threw = "none"
           /\ Returned(heap', ret') = Holding(heap, rows, last'.opts.filter, 1)
           /\ \A i \in 1..Len(rows) :
                ThrowsOn(heap[rows[i].ref], last'.opts.filter)
                  => \A j \in 1..Len(ret') : heap'[ret'[j]]["id"] # rows[i].key
           /\ Len(rows') = Len(rows)
           /\ Stored(heap', rows') = Stored(heap, rows))]_vars

\* C13 witness: a query whose filter function threw on the first record of the Map and
\* held of the second, which it returned
C13_Witness ==
  /\ last.op = "query"
  /\ last.threw = "none"
  /\ Len(rows) = 2
  /\ ThrowsOn(heap[rows[1].ref], last.opts.filter)
  /\ Len(ret) = 1
  /\ heap[ret[1]]["id"] = rows[2].key

\* the calls of an operation whose method has returned
Settled(op) == {i \in 1..Len(calls) : calls[i].op = op /\ calls[i].pc \in {"timed", "done"}}

\* C14: of the registerUser calls for one email address at most one returns ok and every
\* other one returns the error 'Email already registered', and the repository never
\* holds two users with one email address.  The code keeps the test and the insert in
\* one step, but the insert is under an id of makeId: when the id of a second user
\* equals the id of the first, the first user is overwritten and its email is free again.
C14_OneOkPerEmail ==
  /\ \A email \in Emails :
       Cardinality({i \in Settled("registerUser") :
                      calls[i].payload.email = email /\ calls[i].result.ok}) <= 1
  /\ \A i \in Settled("registerUser") :
       ~calls[i].result.ok => calls[i].result.error = "Email already registered"
  /\ \A i, j \in 1..Len(users) : i # j => users[i].ref.email # users[j].ref.email

\* the places of the log's events of one kind
Events(e) == {k \in 1..Len(retrying.log) : retrying.log[k].e = e}

\* C15: retry calls fn at most attempts times, never while a call of fn is unsettled;
\* the first call that succeeds ends the run, which returns that call's result and calls
\* fn no more; a run whose calls all failed made attempts calls and rejects with the
\* error of the last one; and every failed call, the last one too, is followed at once
\* by a backoff wait that is over before the next call or the rejection.
C15_RetrySemantics ==
  LET log == retrying.log
      made == Cardinality(Events("call"))
  IN /\ made <= Max(retrying.attempts, 0)
     /\ \A k \in Events("call") :
          /\ k < Len(log) => log[k + 1].e \in {"return", "throw"}
          /\ k = Len(log) => retrying.pc = "fn"
          /\ k > 1 => log[k - 1].e = "waited"
     /\ \A k \in Events("return") :
          /\ k = Len(log)
          /\ Events("return") = {k}
          /\ retrying.pc = "fulfilled"
          /\ retrying.settled = log[k].x
     /\ retrying.pc = "fulfilled" => Events("return") # {}
     /\ retrying.pc = "fn" => Len(log) \in Events("call")
     /\ retrying.pc = "backoff" => Len(log) \in Events("wait")
     /\ \A k \in Events("throw") :
          /\ k < Len(log)
          /\ log[k + 1].e = "wait"
          /\ k + 1 = Len(log) => retrying.pc = "backoff"
     /\ retrying.pc = "rejected"
          => /\ made = Max(retrying.attempts, 0)
             /\ Cardinality(Events("throw")) = made
             /\ made > 0 => /\ log[Len(log)].e = "waited"
                             /\ retrying.settled = log[Len(log) - 2].x

\* C15 witness: a run of two attempts that both failed, with different errors, rejected
\* with the second error after the second wait
C15_Witness ==
  /\ retrying.pc = "rejected"
  /\ retrying.attempts = 2
  /\ Cardinality(Events("throw")) = 2
  /\ retrying.log[2].x # retrying.log[6].x
  /\ retrying.settled = retrying.log[6].x
  /\ retrying.log[Len(retrying.log)].e = "waited"

\* the deltas of the react calls, up to call i, that found the post and gave it the reaction
RECURSIVE Applied(_, _, _)
Applied(id, reaction, i) ==
  IF i = 0 THEN 0
  ELSE Applied(id, reaction, i - 1)
       + (IF /\ calls[i].op = "react"
             /\ calls[i].payload.id = id
             /\ calls[i].payload.reaction = reaction
             /\ calls[i].result # <<>>
          THEN (IF calls[i].payload.delta.k = "undefined" THEN 1 ELSE calls[i].payload.delta.n)
          ELSE 0)

\* the addAddress calls for a user that returned ok
AddedTo(userId) ==
  {i \in Settled("addAddress") : calls[i].payload.userId = userId /\ calls[i].result.ok}

\* C16: in every interleaving of addAddress calls for a user and react calls for a post
\* the stored user has as many addresses as addAddress calls for it returned ok, among
\* them the address each of these calls returned, and the stored count of each reaction
\* of the post is the sum of the deltas of the react calls that found the post.
C16_NoLostUpdate ==
  /\ \A u \in 1..Len(users) :
       LET stored == users[u].ref.addresses
       IN /\ Len(stored) = Cardinality(AddedTo(users[u].key))
          /\ \A i \in AddedTo(users[u].key) :
               \E a \in 1..Len(stored) : stored[a] = calls[i].result.value
  /\ \A p \in 1..Len(posts), reaction \in Reactions :
       LET count == posts[p].ref.reactions[reaction]
       IN (IF IsNullish(count) THEN 0 ELSE count.n) = Applied(posts[p].key, reaction, Len(calls))
  /\ \A i \in Settled("addAddress") :
       ~calls[i].result.ok => calls[i].payload.userId \notin Keys(users)

\* C16 witness: of two addAddress calls in flight together the second ran first, both
\* returned ok and the user has both addresses, in the order the calls ran in; and a
\* react call has counted on the post
C16_Witness ==
  /\ Len(users) = 1
  /\ Len(calls) = 4
  /\ calls[2].op = "addAddress" /\ calls[2].result.ok
  /\ calls[3].op = "addAddress" /\ calls[3].result.ok
  /\ calls[2].payload.addr.street # calls[3].payload.addr.street
  /\ users[1].ref.addresses = <<calls[3].result.value, calls[2].result.value>>
  /\ calls[4].op = "react"
  /\ Len(posts) = 1
  /\ posts[1].ref.reactions["like"] = Num(2)
====
